---- MODULE Spec2Model ----
(***************************************************************************)
(* A model of slurm-job-tunnel: the job lifecycle of the two entry points  *)
(* of the repository,                                                      *)
(*   "legacy"  : main()       in src/job_tunnel.py                         *)
(*   "package" : run_tunnel() in src/slurm_job_tunnel/run_tunnel.py        *)
(* with the SIGINT handlers they install, the output watcher, the parsing  *)
(* of the sentinel lines, the LocalTunnel worker thread and the teardown.  *)
(*                                                                         *)
(* Text is modelled by TLA+ strings: a line of the remote output file is a *)
(* string, "x in line" is a substring test and str.split is computed on    *)
(* the characters.                                                         *)
(***************************************************************************)
EXTENDS Integers, Sequences, FiniteSets, TLC

\* ------------------------------------------------------------------------
\* Bounds of the model
\* ------------------------------------------------------------------------

\* Most lines the remote job writes to its output file.
MaxLines == 4

\* ------------------------------------------------------------------------
\* Python values
\* ------------------------------------------------------------------------

\* Optional values: None is the empty sequence, a set value v is <<v>>.
None == <<>>

Some(v) == <<v>>

IsSet(o) == o # None

Has(seq, x) == \E i \in 1..Len(seq) : seq[i] = x

\* ------------------------------------------------------------------------
\* str operations, computed on the characters
\* ------------------------------------------------------------------------

Char(s, i) == SubSeq(s, i, i)

\* Python: t in s
Contains(s, t) ==
    \E i \in 1..(Len(s) - Len(t) + 1) : SubSeq(s, i, i + Len(t) - 1) = t

\* Least index at which t occurs in s, 0 when it does not occur.
IndexOf(s, t) ==
    IF Contains(s, t)
    THEN CHOOSE i \in 1..(Len(s) - Len(t) + 1) :
            /\ SubSeq(s, i, i + Len(t) - 1) = t
            /\ \A j \in 1..(i - 1) : SubSeq(s, j, j + Len(t) - 1) # t
    ELSE 0

\* Python: s.split(sep), the list of the pieces between occurrences of sep.
RECURSIVE Split(_, _)
Split(s, sep) ==
    LET i == IndexOf(s, sep)
    IN IF i = 0
       THEN <<s>>
       ELSE <<SubSeq(s, 1, i - 1)>> \o Split(SubSeq(s, i + Len(sep), Len(s)), sep)

IsSpace(c) == c \in {" ", "\n", "\t"}

\* Python: s.split(), the whitespace-delimited tokens of s (none are empty).
\* s.strip().split() gives the same list.
RECURSIVE TokensFrom(_, _, _)
TokensFrom(s, i, cur) ==
    IF i > Len(s)
    THEN IF cur = "" THEN <<>> ELSE <<cur>>
    ELSE IF IsSpace(Char(s, i))
         THEN (IF cur = "" THEN <<>> ELSE <<cur>>) \o TokensFrom(s, i + 1, "")
         ELSE TokensFrom(s, i + 1, cur \o Char(s, i))

Tokens(s) == TokensFrom(s, 1, "")

Digits == {"0", "1", "2", "3", "4", "5", "6", "7", "8", "9"}

DigitValue(c) ==
    CASE c = "0" -> 0 [] c = "1" -> 1 [] c = "2" -> 2 [] c = "3" -> 3
      [] c = "4" -> 4 [] c = "5" -> 5 [] c = "6" -> 6 [] c = "7" -> 7
      [] c = "8" -> 8 [] c = "9" -> 9

IsDigits(s) == Len(s) > 0 /\ \A i \in 1..Len(s) : Char(s, i) \in Digits

RECURSIVE DecValue(_)
DecValue(s) ==
    IF Len(s) = 0 THEN 0
    ELSE 10 * DecValue(SubSeq(s, 1, Len(s) - 1)) + DigitValue(Char(s, Len(s)))

\* Python: s.strip()
RECURSIVE Strip(_)
Strip(s) ==
    IF Len(s) = 0 THEN s
    ELSE IF IsSpace(Char(s, 1)) THEN Strip(SubSeq(s, 2, Len(s)))
    ELSE IF IsSpace(Char(s, Len(s))) THEN Strip(SubSeq(s, 1, Len(s) - 1))
    ELSE s

\* Python: int(s) succeeds on optional surrounding whitespace, an optional
\* sign and decimal digits (digit-group underscores are not modelled).
IntBody(s) ==
    LET t == Strip(s)
    IN IF Len(t) > 0 /\ Char(t, 1) \in {"+", "-"} THEN SubSeq(t, 2, Len(t)) ELSE t

IntParses(s) == IsDigits(IntBody(s))

IntOf(s) ==
    LET t == Strip(s)
    IN IF Len(t) > 0 /\ Char(t, 1) = "-" THEN 0 - DecValue(IntBody(s))
       ELSE DecValue(IntBody(s))

\* Python: datetime.strptime(s, "%Y-%m-%d %H:%M:%S") succeeds. The model
\* accepts the zero-padded form YYYY-MM-DD HH:MM:SS with fields in range.
StrptimeParses(s) ==
    /\ Len(s) = 19
    /\ IsDigits(SubSeq(s, 1, 4))
    /\ Char(s, 5) = "-"
    /\ IsDigits(SubSeq(s, 6, 7))
    /\ DecValue(SubSeq(s, 6, 7)) \in 1..12
    /\ Char(s, 8) = "-"
    /\ IsDigits(SubSeq(s, 9, 10))
    /\ DecValue(SubSeq(s, 9, 10)) \in 1..31
    /\ Char(s, 11) = " "
    /\ IsDigits(SubSeq(s, 12, 13))
    /\ DecValue(SubSeq(s, 12, 13)) \in 0..23
    /\ Char(s, 14) = ":"
    /\ IsDigits(SubSeq(s, 15, 16))
    /\ DecValue(SubSeq(s, 15, 16)) \in 0..59
    /\ Char(s, 17) = ":"
    /\ IsDigits(SubSeq(s, 18, 19))
    /\ DecValue(SubSeq(s, 18, 19)) \in 0..61

\* ------------------------------------------------------------------------
\* Inputs the model draws from
\* ------------------------------------------------------------------------

PortMarker == "PORT="

NodeMarker == "NODE="

CloseMarker == "This tunnel will close at: "

\* The watch_texts get_tunnel_info passes to watch_output_for_text.
TunnelMarkers == <<PortMarker, NodeMarker, CloseMarker>>

\* Lines the remote job may write to its output file: the three sentinel
\* lines, a second PORT= line, a line holding two markers, and sentinel
\* lines whose value does not parse.
Lines ==
    { "PORT=1111",
      "PORT=2222",
      "NODE=gpu07",
      "This tunnel will close at: 2025-01-01 12:00:00",
      "PORT=51000 NODE=gpu07",
      "PORT=abc",
      "This tunnel will close at: soon" }

\* What the job script of a session may write, in the order it writes it:
\* the well-formed output, a PORT= line repeated before the others, values
\* that do not parse, two markers on one line, PORT= lines alone. The file
\* a poll fetches is a prefix of one of these.
Scripts ==
    { <<"PORT=1111", "NODE=gpu07", "This tunnel will close at: 2025-01-01 12:00:00">>,
      <<"PORT=1111", "PORT=2222", "NODE=gpu07",
        "This tunnel will close at: 2025-01-01 12:00:00">>,
      <<"PORT=abc", "NODE=gpu07", "This tunnel will close at: 2025-01-01 12:00:00">>,
      <<"PORT=1111", "NODE=gpu07", "This tunnel will close at: soon">>,
      <<"PORT=51000 NODE=gpu07", "This tunnel will close at: 2025-01-01 12:00:00">>,
      <<"PORT=1111", "PORT=2222", "PORT=1111">> }

IsPrefix(p, q) == Len(p) <= Len(q) /\ SubSeq(q, 1, Len(p)) = p

\* The files of at most n lines.
FilesUpTo(n) == UNION { [1..k -> Lines] : k \in 0..n }

\* The watch_texts a call of watch_output_for_text is given.
WatchTextChoices == { <<PortMarker, NodeMarker, CloseMarker>>, <<PortMarker, NodeMarker>> }

\* What the submission command may print, with its exit code.
Stdouts ==
    { "Submitted batch job 4821\n",
      "",
      "sbatch: error: invalid qos\n",
      "17" }

ReturnCodes == {0, 1}

\* Seconds between now and the job's expiry when the expiry sleep starts.
RemainingSeconds == {30, 60, 3600}

\* Names of the entries of the SSH config file.
LoginHost == "hpc-login"

TunnelHost == "hpc-login-job"

LocalHost == "hpc-login-job-port-forward"

\* Process ids of IDE ("code") processes: those that may exist before the
\* session starts, and the one the session launches.
PreExistingPids == {1}

LaunchedPids == {3}

\* Scheduler states in which cancel_slurm_job issues scancel.
Cancellable == {"PENDING", "RUNNING", "STOPPED"}

\* ------------------------------------------------------------------------
\* State
\* ------------------------------------------------------------------------

VARIABLES
    variant,          \* "legacy": job_tunnel.py main; "package": run_tunnel
    pc,               \* position of the primary thread
    handler,          \* the SIGINT handler installed: "h1", "h2", "h3"
    exit_status,      \* None while the primary thread runs, else Some(status)
    exc,              \* the exception that ended the primary thread, or ""
    tunnel_entry,     \* the local variable tunnel_entry: None while unbound
    sleep_duration,   \* the argument of the expiry sleep, None before it
    sigint_at,        \* None, or Some(pc at which SIGINT was delivered)
    teardown,         \* the teardown steps performed so far, in order
    job_id,           \* JobTunnel.job_id
    port,             \* JobTunnel.port
    node,             \* JobTunnel.node
    termination_time, \* JobTunnel.termination_time
    job_status,       \* the scheduler's state of the job ("" = not queued)
    output,           \* the lines of the remote output file
    ssh_config,       \* the host names of the entries in ~/.ssh/config
    watch_texts,      \* watch_output_for_text: the argument watch_texts
    watch,            \* watch_output_for_text: state of the current call
    submit_in,        \* None, or Some of what the submission command gave
    lt_port,          \* LocalTunnel._port
    lt_thread,        \* LocalTunnel._thread: position of the worker thread
    lt_created,       \* LocalTunnel._created
    lt_stop_event,    \* LocalTunnel._stop_event
    lt_entry,         \* LocalTunnel._local_tunnel_entry
    lt_child,         \* what the worker observed of the ssh child
    code_installed,   \* is_code_installed()
    code_pids,        \* the IDE processes running (get_code_pids())
    prev_code_pids,   \* the local variable prev_code_pids
    mode,             \* main.py: the positional argument, "init" or "run"
    config_file       \* main.py: CONFIG_FILE, None or Some(keys of its JSON)

mainVars == <<variant, pc, handler, exit_status, exc, tunnel_entry,
              sleep_duration, sigint_at, teardown>>

jtVars == <<job_id, port, node, termination_time>>

watchVars == <<watch_texts, watch>>

ltVars == <<lt_port, lt_thread, lt_created, lt_stop_event, lt_entry, lt_child>>

ideVars == <<code_installed, code_pids, prev_code_pids>>

cliVars == <<mode, config_file>>

vars == <<mainVars, jtVars, job_status, output, ssh_config, watchVars,
          submit_in, ltVars, ideVars, cliVars>>

\* The primary thread has ended (returned, sys.exit or uncaught exception).
MainEnded == IsSet(exit_status)

\* LocalTunnel.is_running: the worker thread was started and is alive.
ThreadAlive == lt_thread \in {"started", "connected", "registered", "waiting"}

\* The process has exited: the interpreter ends only once every non-daemon
\* thread has ended (the worker is started with daemon=False).
ProcessExited == MainEnded /\ ~ThreadAlive

WatchIdle == [state |-> "idle", polled |-> FALSE, found_texts |-> <<>>, named |-> <<>>]

Init ==
    /\ variant \in {"legacy", "package"}
    /\ pc = "submit"
    /\ handler = "h1"
    /\ exit_status = None
    /\ exc = ""
    /\ tunnel_entry = None
    /\ sleep_duration = None
    /\ sigint_at = None
    /\ teardown = <<>>
    /\ job_id = None
    /\ port = None
    /\ node = None
    /\ termination_time = None
    /\ job_status = ""
    /\ output = <<>>
    /\ ssh_config = {LoginHost}
    /\ watch_texts = TunnelMarkers
    /\ watch = WatchIdle
    /\ submit_in = None
    /\ lt_port = None
    /\ lt_thread = "none"
    /\ lt_created = FALSE
    /\ lt_stop_event = FALSE
    /\ lt_entry = None
    /\ lt_child = "none"
    /\ code_installed \in (IF variant = "legacy" THEN BOOLEAN ELSE {FALSE})
    /\ code_pids \in (IF variant = "legacy" THEN SUBSET PreExistingPids ELSE {{}})
    /\ prev_code_pids = None
    /\ mode = "run"
    /\ config_file = None

\* The primary thread ends with an uncaught exception e: exit status 1.
Raise(e) ==
    /\ pc' = "crashed"
    /\ exit_status' = Some(1)
    /\ exc' = e

\* sys.exit(0)
Exit0 ==
    /\ pc' = "exited"
    /\ exit_status' = Some(0)
    /\ exc' = ""

\* ------------------------------------------------------------------------
\* JobTunnel: submission, status, cancellation
\* ------------------------------------------------------------------------

\* submit_slurm_job with the assignment of job_id moved before the
\* returncode check: a failed submission leaves a job id behind.
SubmitParseAssignsFirst(v, rc, stdout) ==
    LET toks == Tokens(stdout)
    IN IF toks = <<>>
       THEN [exc |-> "IndexError: list index out of range", job_id |-> None]
       ELSE IF ~IntParses(toks[Len(toks)])
       THEN [exc |-> "ValueError: invalid literal for int()", job_id |-> None]
       ELSE IF v = "legacy" /\ rc # 0
       THEN [exc |-> "ValueError: Failed to submit SLURM job",
             job_id |-> Some(IntOf(toks[Len(toks)]))]
       ELSE [exc |-> "", job_id |-> Some(IntOf(toks[Len(toks)]))]

\* submit_slurm_job, the parsing of the result: the exception it raises
\* ("" for none) and the job id it assigns.
\* legacy:  returncode != 0 raises ValueError; then
\*          int(result.stdout.strip().split()[-1])
\* package: the same expression without the returncode check.
SubmitParse(v, rc, stdout) ==
    LET toks == Tokens(stdout)
    IN IF v = "legacy" /\ rc # 0
       THEN [exc |-> "ValueError: Failed to submit SLURM job", job_id |-> None]
       ELSE IF toks = <<>>
       THEN [exc |-> "IndexError: list index out of range", job_id |-> None]
       ELSE IF ~IntParses(toks[Len(toks)])
       THEN [exc |-> "ValueError: invalid literal for int()", job_id |-> None]
       ELSE [exc |-> "", job_id |-> Some(IntOf(toks[Len(toks)]))]

\* What sbatch prints for a job it accepted: "Submitted batch job <id>".
\* The stdout holds that pattern when its last two tokens are "job" and an
\* integer, after a token "Submitted".
HasSubmittedPattern(stdout) ==
    LET toks == Tokens(stdout)
    IN /\ Len(toks) >= 3
       /\ Has(toks, "Submitted")
       /\ toks[Len(toks) - 1] = "job"
       /\ IntParses(toks[Len(toks)])

\* is_running taking every job that is no longer pending for a running one.
IsRunningNotPending == job_status # "PENDING"

\* job_running / is_running: the status query answers RUNNING.
IsRunning == job_status = "RUNNING"

\* cancel_slurm_job without the test of the job's status: scancel is issued
\* whatever the query answers.
CancelStepsUnconditional == <<"cancel", "scancel">>

\* cancel_slurm_job: the steps it performs, given the status the query
\* answers. A job that was never submitted is not in the queue: the query
\* answers "" and nothing is cancelled.
CancelSteps ==
    <<"cancel">> \o (IF job_status \in Cancellable THEN <<"scancel">> ELSE <<>>)

\* The scheduler's state of the job after cancel_slurm_job; ok tells
\* whether the remote scancel command succeeded.
StatusAfterCancel(ok) ==
    IF job_status \in Cancellable /\ ok THEN "" ELSE job_status

\* ------------------------------------------------------------------------
\* The output watcher
\* ------------------------------------------------------------------------

\* The inner loop over watch_texts for one line: the line is appended to
\* found_texts once for every watch text it contains.
RECURSIVE MatchesOf(_, _, _)
MatchesOf(line, texts, k) ==
    IF k > Len(texts) THEN <<>>
    ELSE (IF Contains(line, texts[k]) THEN <<line>> ELSE <<>>)
         \o MatchesOf(line, texts, k + 1)

\* One pass of watch_output_for_text over the lines of the file, from line
\* i with found_texts = found: it returns found_texts as soon as, after a
\* line, len(found_texts) == len(watch_texts).
RECURSIVE ScanFrom(_, _, _, _)
ScanFrom(lines, texts, i, found) ==
    IF i > Len(lines)
    THEN [returned |-> FALSE, found_texts |-> found]
    ELSE LET f == found \o MatchesOf(lines[i], texts, 1)
         IN IF Len(f) = Len(texts)
            THEN [returned |-> TRUE, found_texts |-> f]
            ELSE ScanFrom(lines, texts, i + 1, f)

Scan(lines, texts) == ScanFrom(lines, texts, 1, <<>>)

\* The prefixes the TimeoutError of watch_output_for_text names:
\* f"Timed out waiting for {watch_texts}".
TimeoutNames(texts, found) == texts

\* next(line for line in output_lines if text in line): the index of the
\* first such line, 0 when there is none (StopIteration).
FirstWith(lines, text) ==
    IF \E i \in 1..Len(lines) : Contains(lines[i], text)
    THEN CHOOSE i \in 1..Len(lines) :
            /\ Contains(lines[i], text)
            /\ \A j \in 1..(i - 1) : ~Contains(lines[j], text)
    ELSE 0

\* get_tunnel_info after the watcher returned output_lines: the exception
\* raised ("" for none) and the three fields as it leaves them. The three
\* values are extracted first; then port is assigned from int(port), node
\* is assigned, and termination_time is assigned from strptime.
ParseTunnelInfo(lines) ==
    LET ip == FirstWith(lines, PortMarker)
        inn == FirstWith(lines, NodeMarker)
        it == FirstWith(lines, CloseMarker)
        unchanged == [port |-> port, node |-> node,
                      termination_time |-> termination_time]
    IN IF ip = 0 \/ inn = 0 \/ it = 0
       THEN [exc |-> "StopIteration"] @@ unchanged
       ELSE LET port_s == Split(lines[ip], "=")[2]
                node_s == Split(lines[inn], "=")[2]
                time_s == Split(lines[it], "at: ")[2]
            IN IF ~IntParses(port_s)
               THEN [exc |-> "ValueError: invalid literal for int()"] @@ unchanged
               ELSE IF ~StrptimeParses(time_s)
               THEN [exc |-> "ValueError: time data does not match format",
                     port |-> Some(IntOf(port_s)),
                     node |-> Some(node_s),
                     termination_time |-> termination_time]
               ELSE [exc |-> "",
                     port |-> Some(IntOf(port_s)),
                     node |-> Some(node_s),
                     termination_time |-> Some(time_s)]

\* ------------------------------------------------------------------------
\* Teardown
\* ------------------------------------------------------------------------

\* `if prev_code_pids:` is true of a list that is bound and not empty.
Truthy(pids) == IsSet(pids) /\ pids[1] # {}

\* cleanup() of job_tunnel.py, the steps in the order of its statements:
\* cancel_slurm_job, kill_code_processes, ssh_config.remove_entry.
LegacyCleanupSteps(use_cfg, use_prev) ==
    CancelSteps
    \o (IF use_prev /\ Truthy(prev_code_pids) THEN <<"kill">> ELSE <<>>)
    \o (IF use_cfg /\ IsSet(tunnel_entry) THEN <<"remove_tunnel">> ELSE <<>>)

\* cleanup() of run_tunnel.py, the steps in the order of its statements:
\* cancel_slurm_job, ssh_config.remove_entry, local_tunnel.cleanup (which
\* removes its entry, then stops and joins the worker if it is alive).
PackageCleanupSteps(use_cfg, use_local) ==
    CancelSteps
    \o (IF use_cfg /\ IsSet(tunnel_entry) THEN <<"remove_tunnel">> ELSE <<>>)
    \o (IF use_local /\ IsSet(lt_entry) THEN <<"remove_local">> ELSE <<>>)
    \o (IF use_local /\ IsSet(lt_entry) /\ ThreadAlive THEN <<"stop_thread">> ELSE <<>>)

\* kill_code_processes without the test `pid in dont_kill_pids`: every IDE
\* process is terminated.
KillEveryCodeProcess(pids, dont_kill_pids) == {}

\* kill_code_processes(dont_kill_pids): the IDE processes left running.
KillCodeProcesses(pids, dont_kill_pids) == pids \cap dont_kill_pids

\* cleanup(..., exit=False) returns to its caller: the position after the
\* call made at position p.
AfterCall(p) == IF p \in {"call1", "join1"} THEN "call2" ELSE "called"

\* cleanup(job_tunnel, ..., exit) with the arguments the caller binds:
\* use_cfg (ssh_config and tunnel_entry are passed), use_prev
\* (prev_code_pids is passed), use_local (local_tunnel is passed).
\* run_tunnel.py: cancel_slurm_job is self.job.cancel(), and self.job is
\* None until submit_slurm_job has assigned it: AttributeError, nothing of
\* the teardown is done.
Cleanup(use_cfg, use_prev, use_local, ok, exit) ==
    IF variant = "package" /\ ~IsSet(job_id)
    THEN /\ Raise("AttributeError: 'NoneType' object has no attribute 'cancel'")
         /\ UNCHANGED <<cliVars, variant, handler, tunnel_entry, sleep_duration, teardown,
                        jtVars, job_status, output, ssh_config, watchVars,
                        submit_in, ltVars, ideVars>>
    ELSE
    /\ teardown' = teardown \o
          (IF variant = "legacy" THEN LegacyCleanupSteps(use_cfg, use_prev)
           ELSE PackageCleanupSteps(use_cfg, use_local))
    /\ job_status' = StatusAfterCancel(ok)
    /\ code_pids' = IF use_prev /\ Truthy(prev_code_pids)
                    THEN KillCodeProcesses(code_pids, prev_code_pids[1])
                    ELSE code_pids
    /\ ssh_config' = (ssh_config
                        \ (IF use_cfg /\ IsSet(tunnel_entry) THEN {tunnel_entry[1].host} ELSE {}))
                        \ (IF use_local /\ IsSet(lt_entry) THEN {lt_entry[1]} ELSE {})
    /\ IF use_local /\ ~IsSet(lt_entry)
       THEN \* the property local_tunnel_entry raises
            /\ Raise("ValueError: Local tunnel entry is not set")
            /\ UNCHANGED lt_stop_event
       ELSE IF use_local /\ ThreadAlive
       THEN \* _set_stop(), then thread.join() waits for the worker
            /\ lt_stop_event' = TRUE
            /\ pc' = IF exit THEN "joining"
                     ELSE IF pc = "call1" THEN "join1" ELSE "join2"
            /\ UNCHANGED <<exit_status, exc>>
       ELSE /\ IF exit
               THEN Exit0
               ELSE pc' = AfterCall(pc) /\ UNCHANGED <<exit_status, exc>>
            /\ UNCHANGED lt_stop_event
    /\ UNCHANGED <<cliVars, variant, handler, tunnel_entry, sleep_duration, jtVars, output,
                   watchVars, submit_in, lt_port, lt_thread, lt_created, lt_entry,
                   lt_child, code_installed, prev_code_pids>>

\* The handler installed as `which` is called: its lambda evaluates its
\* free variables, then cleanup runs.
\* package, first handler: the lambda reads run_tunnel's local tunnel_entry,
\* which is unbound until it is assigned: NameError, and cleanup is not
\* called.
HandlerRuns(which, ok) ==
    IF variant = "package" /\ ~IsSet(tunnel_entry)
    THEN /\ Raise("NameError: tunnel_entry")
         /\ UNCHANGED <<cliVars, variant, handler, tunnel_entry, sleep_duration, teardown,
                        jtVars, job_status, output, ssh_config, watchVars,
                        submit_in, ltVars, ideVars>>
    ELSE IF variant = "legacy"
    THEN Cleanup(which \in {"h2", "h3"}, which = "h3", FALSE, ok, TRUE)
    ELSE Cleanup(TRUE, FALSE, which = "h2", ok, TRUE)

\* SIGINT is delivered to the primary thread, between two of its steps.
Interrupt ==
    /\ ~MainEnded
    /\ pc # "joining"
    /\ sigint_at = None
    /\ sigint_at' = Some(pc)
    /\ \E ok \in BOOLEAN : HandlerRuns(handler, ok)

\* thread.join() returns once the worker has ended; cleanup goes on to
\* sys.exit(0), or returns when it was called with exit=False.
JoinDone ==
    /\ pc \in {"joining", "join1", "join2"}
    /\ ~ThreadAlive
    /\ IF pc = "joining"
       THEN Exit0
       ELSE pc' = AfterCall(pc) /\ UNCHANGED <<exit_status, exc>>
    /\ UNCHANGED <<cliVars, variant, handler, tunnel_entry, sleep_duration, sigint_at,
                   teardown, jtVars, job_status, output, ssh_config, watchVars,
                   submit_in, ltVars, ideVars>>

\* ------------------------------------------------------------------------
\* The primary thread: main() / run_tunnel()
\* ------------------------------------------------------------------------

\* job_id = job_tunnel.submit_slurm_job(). The scheduler has queued a job
\* when sbatch exited with 0 and printed its "Submitted batch job" line.
Submit ==
    /\ pc = "submit"
    /\ \E rc \in ReturnCodes, stdout \in Stdouts :
         LET r == SubmitParse(variant, rc, stdout)
         IN /\ submit_in' = Some([rc |-> rc, stdout |-> stdout])
            /\ job_id' = r.job_id
            /\ job_status' = IF rc = 0 /\ HasSubmittedPattern(stdout)
                             THEN "PENDING" ELSE ""
            /\ IF r.exc = ""
               THEN pc' = "queued" /\ UNCHANGED <<exit_status, exc>>
               ELSE Raise(r.exc)
    /\ UNCHANGED <<cliVars, variant, handler, tunnel_entry, sleep_duration, sigint_at,
                   teardown, port, node, termination_time, output, ssh_config,
                   watchVars, ltVars, ideVars>>

\* while not job_tunnel.is_running: time.sleep(5)
PollRunning ==
    /\ pc = "queued"
    /\ pc' = IF IsRunning THEN "get_info" ELSE "queued"
    /\ UNCHANGED <<cliVars, variant, handler, exit_status, exc, tunnel_entry,
                   sleep_duration, sigint_at, teardown, jtVars, job_status,
                   output, ssh_config, watchVars, submit_in, ltVars, ideVars>>

\* get_tunnel_info with the test of the job's state placed after a first
\* fetch of the output file.
GetTunnelInfoChecksLate ==
    /\ pc = "get_info"
    /\ IF IsRunning
       THEN /\ pc' = "watching"
            /\ watch' = [WatchIdle EXCEPT !.state = "polling"]
            /\ UNCHANGED <<exit_status, exc>>
       ELSE /\ Raise("ValueError: Job is not running")
            /\ watch' = [WatchIdle EXCEPT !.polled = TRUE]
    /\ UNCHANGED <<cliVars, variant, handler, tunnel_entry, sleep_duration, sigint_at,
                   teardown, jtVars, job_status, output, ssh_config, watch_texts,
                   submit_in, ltVars, ideVars>>

\* get_tunnel_info: `if not self.is_running: raise ValueError`, then the
\* call of watch_output_for_text starts.
GetTunnelInfo ==
    /\ pc = "get_info"
    /\ IF IsRunning
       THEN /\ pc' = "watching"
            /\ watch' = [WatchIdle EXCEPT !.state = "polling"]
            /\ UNCHANGED <<exit_status, exc>>
       ELSE /\ Raise("ValueError: Job is not running")
            /\ UNCHANGED watch
    /\ UNCHANGED <<cliVars, variant, handler, tunnel_entry, sleep_duration, sigint_at,
                   teardown, jtVars, job_status, output, ssh_config, watch_texts,
                   submit_in, ltVars, ideVars>>

\* One iteration of the loop of watch_output_for_text: the file is fetched
\* and scanned. When the scan returns inside get_tunnel_info, the values
\* are parsed and the fields assigned.
WatchPoll ==
    /\ pc \in {"watching", "watch_only"}
    /\ watch.state = "polling"
    /\ LET r == Scan(output, watch_texts)
           info == ParseTunnelInfo(r.found_texts)
       IN /\ watch' = [watch EXCEPT
                         !.state = IF r.returned THEN "returned" ELSE "polling",
                         !.polled = TRUE,
                         !.found_texts = r.found_texts]
          /\ IF r.returned /\ pc = "watching"
             THEN /\ port' = info.port
                  /\ node' = info.node
                  /\ termination_time' = info.termination_time
                  /\ IF info.exc = ""
                     THEN pc' = "bind_entry" /\ UNCHANGED <<exit_status, exc>>
                     ELSE Raise(info.exc)
             ELSE UNCHANGED <<pc, exit_status, exc, port, node, termination_time>>
    /\ UNCHANGED <<cliVars, variant, handler, tunnel_entry, sleep_duration, sigint_at,
                   teardown, job_id, job_status, output, ssh_config, watch_texts,
                   submit_in, ltVars, ideVars>>

\* The loop condition `time.time() - start_time < timeout` fails: the
\* watcher of run_tunnel.py raises TimeoutError. The watcher of
\* job_tunnel.py loops `while True` and has no timeout.
WatchTimeout ==
    /\ pc \in {"watching", "watch_only"}
    /\ variant = "package"
    /\ watch.state = "polling"
    /\ watch.polled
    /\ watch' = [watch EXCEPT !.state = "timeout",
                              !.named = TimeoutNames(watch_texts, watch.found_texts)]
    /\ IF pc = "watching"
       THEN Raise("TimeoutError")
       ELSE UNCHANGED <<pc, exit_status, exc>>
    /\ UNCHANGED <<cliVars, variant, handler, tunnel_entry, sleep_duration, sigint_at,
                   teardown, jtVars, job_status, output, ssh_config, watch_texts,
                   submit_in, ltVars, ideVars>>

\* The entry with the login host in place of the proxy swapped with the
\* compute node: the node as proxy, the login host as hostname.
TunnelEntrySwapped(host, n, p) ==
    [host |-> host \o "-job", hostname |-> host, port |-> p, proxy |-> n]

\* SSHConfigEntry(host=f"{host}-job", hostname=node, port=port,
\* proxy=host): the entry of the compute node, reached through the login
\* host.
TunnelEntryOf(host, n, p) ==
    [host |-> host \o "-job", hostname |-> n, port |-> p, proxy |-> host]

\* tunnel_entry = SSHConfigEntry(host=f"{host}-job", ...)
BindTunnelEntry ==
    /\ pc = "bind_entry"
    /\ tunnel_entry' = Some(TunnelEntryOf(LoginHost, node[1], port[1]))
    /\ pc' = "update_config"
    /\ UNCHANGED <<cliVars, variant, handler, exit_status, exc, sleep_duration, sigint_at,
                   teardown, jtVars, job_status, output, ssh_config, watchVars,
                   submit_in, ltVars, ideVars>>

\* ssh_config.update_config(tunnel_entry)
UpdateConfig ==
    /\ pc = "update_config"
    /\ ssh_config' = ssh_config \cup {tunnel_entry[1].host}
    /\ pc' = IF variant = "legacy" THEN "rebind" ELSE "create_local"
    /\ UNCHANGED <<cliVars, variant, handler, exit_status, exc, tunnel_entry,
                   sleep_duration, sigint_at, teardown, jtVars, job_status,
                   output, watchVars, submit_in, ltVars, ideVars>>

\* local_tunnel = LocalTunnel(tunnel_entry); local_tunnel.create() up to
\* self._thread.start()
CreateLocalTunnel ==
    /\ pc = "create_local"
    /\ lt_port' = Some("free")
    /\ lt_thread' = "started"
    /\ pc' = "wait_created"
    /\ UNCHANGED <<cliVars, variant, handler, exit_status, exc, tunnel_entry,
                   sleep_duration, sigint_at, teardown, jtVars, job_status,
                   output, ssh_config, watchVars, submit_in, lt_created,
                   lt_stop_event, lt_entry, lt_child, ideVars>>

\* while not self._created: time.sleep(0.1)
WaitCreated ==
    /\ pc = "wait_created"
    /\ pc' = IF lt_created THEN "rebind" ELSE "wait_created"
    /\ UNCHANGED <<cliVars, variant, handler, exit_status, exc, tunnel_entry,
                   sleep_duration, sigint_at, teardown, jtVars, job_status,
                   output, ssh_config, watchVars, submit_in, ltVars, ideVars>>

\* signal.signal(SIGINT, ...) with ssh_config and tunnel_entry (legacy) or
\* with local_tunnel too (package).
Rebind ==
    /\ pc = "rebind"
    /\ handler' = "h2"
    /\ pc' = IF variant = "legacy" THEN "launch_ide" ELSE "sleep"
    /\ UNCHANGED <<cliVars, variant, exit_status, exc, tunnel_entry, sleep_duration,
                   sigint_at, teardown, jtVars, job_status, output, ssh_config,
                   watchVars, submit_in, ltVars, ideVars>>

\* if is_code_installed(): prev_code_pids = get_code_pids();
\* subprocess.Popen("code")
LaunchIde ==
    /\ pc = "launch_ide"
    /\ IF code_installed
       THEN /\ prev_code_pids' = Some(code_pids)
            /\ code_pids' = code_pids \cup LaunchedPids
            /\ pc' = "rebind_ide"
       ELSE /\ pc' = "sleep"
            /\ UNCHANGED <<prev_code_pids, code_pids>>
    /\ UNCHANGED <<cliVars, variant, handler, exit_status, exc, tunnel_entry,
                   sleep_duration, sigint_at, teardown, jtVars, job_status,
                   output, ssh_config, watchVars, submit_in, ltVars,
                   code_installed>>

\* signal.signal(SIGINT, ...) with prev_code_pids
RebindIde ==
    /\ pc = "rebind_ide"
    /\ handler' = "h3"
    /\ pc' = "sleep"
    /\ UNCHANGED <<cliVars, variant, exit_status, exc, tunnel_entry, sleep_duration,
                   sigint_at, teardown, jtVars, job_status, output, ssh_config,
                   watchVars, submit_in, ltVars, ideVars>>

\* time.sleep((termination_time - datetime.now()).total_seconds() - 60):
\* time.sleep raises ValueError on a negative argument.
SleepDuration(remaining) == remaining - 60

StartSleep ==
    /\ pc = "sleep"
    /\ \E remaining \in RemainingSeconds :
         /\ sleep_duration' = Some(SleepDuration(remaining))
         /\ IF SleepDuration(remaining) < 0
            THEN Raise("ValueError: sleep length must be non-negative")
            ELSE pc' = "sleeping" /\ UNCHANGED <<exit_status, exc>>
    /\ UNCHANGED <<cliVars, variant, handler, tunnel_entry, sigint_at, teardown, jtVars,
                   job_status, output, ssh_config, watchVars, submit_in, ltVars,
                   ideVars>>

\* The sleep ends; the one-minute warning is given (legacy: sleep(60);
\* package: show_time_limit_warning()).
WakeUp ==
    /\ pc = "sleeping"
    /\ pc' = "warned"
    /\ UNCHANGED <<cliVars, variant, handler, exit_status, exc, tunnel_entry,
                   sleep_duration, sigint_at, teardown, jtVars, job_status,
                   output, ssh_config, watchVars, submit_in, ltVars, ideVars>>

\* The final cleanup(...) call of main() / run_tunnel().
FinalCleanup ==
    /\ pc = "warned"
    /\ \E ok \in BOOLEAN :
         Cleanup(TRUE, variant = "legacy", variant = "package", ok, TRUE)
    /\ UNCHANGED sigint_at

\* ------------------------------------------------------------------------
\* The worker thread of LocalTunnel (thread_target)
\* ------------------------------------------------------------------------

\* pexpect.spawn and the two expects, inside try/except: whatever the child
\* did (ready, EOF, TIMEOUT, an exception), the worker goes on.
ThreadConnect ==
    /\ lt_thread = "started"
    /\ \E outcome \in {"ready", "eof", "timeout", "error"} : lt_child' = outcome
    /\ lt_thread' = "connected"
    /\ UNCHANGED <<cliVars, mainVars, jtVars, job_status, output, ssh_config, watchVars,
                   submit_in, lt_port, lt_created, lt_stop_event, lt_entry,
                   ideVars>>

\* self._local_tunnel_entry = SSHConfigEntry(...);
\* SSHConfig().update_config(self.local_tunnel_entry)
ThreadRegister ==
    /\ lt_thread = "connected"
    /\ lt_entry' = Some(LocalHost)
    /\ ssh_config' = ssh_config \cup {LocalHost}
    /\ lt_thread' = "registered"
    /\ UNCHANGED <<cliVars, mainVars, jtVars, job_status, output, watchVars, submit_in,
                   lt_port, lt_created, lt_stop_event, lt_child, ideVars>>

\* thread_target with `self._created = True` placed before the entry is
\* built and registered.
ThreadSetCreatedEarly ==
    /\ lt_thread = "connected"
    /\ lt_created' = TRUE
    /\ lt_thread' = "waiting"
    /\ UNCHANGED <<cliVars, mainVars, jtVars, job_status, output, ssh_config, watchVars,
                   submit_in, lt_port, lt_stop_event, lt_entry, lt_child,
                   ideVars>>

\* self._created = True; then self._stop_event.wait()
ThreadSetCreated ==
    /\ lt_thread = "registered"
    /\ lt_created' = TRUE
    /\ lt_thread' = "waiting"
    /\ UNCHANGED <<cliVars, mainVars, jtVars, job_status, output, ssh_config, watchVars,
                   submit_in, lt_port, lt_stop_event, lt_entry, lt_child,
                   ideVars>>

\* self._stop_event.wait() returns: the worker ends.
ThreadExit ==
    /\ lt_thread = "waiting"
    /\ lt_stop_event
    /\ lt_thread' = "done"
    /\ UNCHANGED <<cliVars, mainVars, jtVars, job_status, output, ssh_config, watchVars,
                   submit_in, lt_port, lt_created, lt_stop_event, lt_entry,
                   lt_child, ideVars>>

\* ------------------------------------------------------------------------
\* The environment: the scheduler and the remote job
\* ------------------------------------------------------------------------

\* The scheduler starts the pending job.
JobStarts ==
    /\ job_status = "PENDING"
    /\ job_status' = "RUNNING"
    /\ UNCHANGED <<cliVars, mainVars, jtVars, output, ssh_config, watchVars, submit_in,
                   ltVars, ideVars>>

\* The job leaves the queue on its own (time limit, failure, a cancel from
\* elsewhere).
JobEnds ==
    /\ job_status \in {"PENDING", "RUNNING"}
    /\ job_status' = ""
    /\ UNCHANGED <<cliVars, mainVars, jtVars, output, ssh_config, watchVars, submit_in,
                   ltVars, ideVars>>

\* The running job appends the next line of its script to its output file.
\* The file is read by the watcher alone, so the model follows it while a
\* call of the watcher is polling.
JobWrites ==
    /\ job_status = "RUNNING"
    /\ pc = "watching"
    /\ watch.state = "polling"
    /\ \E line \in Lines :
         /\ \E sc \in Scripts : IsPrefix(Append(output, line), sc)
         /\ output' = Append(output, line)
    /\ UNCHANGED <<cliVars, mainVars, jtVars, job_status, ssh_config, watchVars,
                   submit_in, ltVars, ideVars>>

Next ==
    \/ Submit
    \/ PollRunning
    \/ GetTunnelInfo
    \/ WatchPoll
    \/ WatchTimeout
    \/ BindTunnelEntry
    \/ UpdateConfig
    \/ CreateLocalTunnel
    \/ WaitCreated
    \/ Rebind
    \/ LaunchIde
    \/ RebindIde
    \/ StartSleep
    \/ WakeUp
    \/ FinalCleanup
    \/ Interrupt
    \/ JoinDone
    \/ ThreadConnect
    \/ ThreadRegister
    \/ ThreadSetCreated
    \/ ThreadExit
    \/ JobStarts
    \/ JobEnds
    \/ JobWrites

Spec == Init /\ [][Next]_vars

TypeOK ==
    /\ variant \in {"legacy", "package"}
    /\ handler \in {"h1", "h2", "h3"}
    /\ exit_status \in {None, Some(0), Some(1)}
    /\ job_status \in {"", "PENDING", "RUNNING", "STOPPED"}
    /\ \E sc \in Scripts : IsPrefix(output, sc)
    /\ ssh_config \subseteq {LoginHost, TunnelHost, LocalHost}

\* ------------------------------------------------------------------------
\* The watcher alone: watch_output_for_text applied to every file of at
\* most MaxLines lines and each choice of watch_texts, in both variants.
\* ------------------------------------------------------------------------

InitWatch ==
    /\ variant \in {"legacy", "package"}
    /\ pc = "watch_only"
    /\ handler = "h1"
    /\ exit_status = None
    /\ exc = ""
    /\ tunnel_entry = None
    /\ sleep_duration = None
    /\ sigint_at = None
    /\ teardown = <<>>
    /\ job_id = Some(4821)
    /\ port = None
    /\ node = None
    /\ termination_time = None
    /\ job_status = "RUNNING"
    /\ output \in FilesUpTo(MaxLines)
    /\ ssh_config = {LoginHost}
    /\ watch_texts \in WatchTextChoices
    /\ watch = [WatchIdle EXCEPT !.state = "polling"]
    /\ submit_in = None
    /\ lt_port = None
    /\ lt_thread = "none"
    /\ lt_created = FALSE
    /\ lt_stop_event = FALSE
    /\ lt_entry = None
    /\ lt_child = "none"
    /\ code_installed = FALSE
    /\ code_pids = {}
    /\ prev_code_pids = None
    /\ mode = "run"
    /\ config_file = None

NextWatch ==
    \/ WatchPoll
    \/ WatchTimeout

SpecWatch == InitWatch /\ [][NextWatch]_vars

\* ------------------------------------------------------------------------
\* The teardown alone: cleanup called twice in a row with exit=False (or
\* once with exit=True) on a session in any stage of construction, with any
\* choice of the optional arguments.
\* ------------------------------------------------------------------------

\* What `squeue -j <id> -h -o %T` can print for the job: nothing once the
\* job has left the queue, else the name of its state.
JobStates ==
    {"", "PENDING", "RUNNING", "STOPPED", "SUSPENDED", "COMPLETING", "CANCELLED"}

InitCleanup ==
    /\ variant \in {"legacy", "package"}
    /\ pc = "call1"
    /\ handler = "h1"
    /\ exit_status = None
    /\ exc = ""
    /\ sleep_duration = None
    /\ sigint_at = None
    /\ teardown = <<>>
    \* the job: not submitted, or submitted and in any state
    /\ submit_in \in {None, Some([rc |-> 0, stdout |-> "Submitted batch job 4821\n"])}
    /\ job_id = IF IsSet(submit_in)
                THEN SubmitParse(variant, submit_in[1].rc, submit_in[1].stdout).job_id
                ELSE None
    /\ job_status \in (IF IsSet(submit_in) THEN JobStates ELSE {""})
    /\ port = None
    /\ node = None
    /\ termination_time = None
    /\ output = <<>>
    /\ watch_texts = TunnelMarkers
    /\ watch = WatchIdle
    \* the tunnel entry: not built, built, built and registered
    /\ tunnel_entry \in {None, Some(TunnelEntryOf(LoginHost, "gpu07", 1111))}
    \* the local tunnel: not created, worker started, worker waiting
    /\ lt_thread \in (IF variant = "package" /\ IsSet(tunnel_entry)
                      THEN {"none", "started", "waiting"} ELSE {"none"})
    /\ lt_port = IF lt_thread = "none" THEN None ELSE Some("free")
    /\ lt_created = (lt_thread = "waiting")
    /\ lt_stop_event = FALSE
    /\ lt_entry = IF lt_thread = "waiting" THEN Some(LocalHost) ELSE None
    /\ lt_child = IF lt_thread = "waiting" THEN "ready" ELSE "none"
    /\ ssh_config \in { {LoginHost} \cup t \cup (IF IsSet(lt_entry) THEN {LocalHost} ELSE {}) :
                          t \in (IF IsSet(tunnel_entry) /\ lt_thread = "none"
                                 THEN {{}, {TunnelHost}}
                                 ELSE IF IsSet(tunnel_entry) THEN {{TunnelHost}}
                                 ELSE {{}}) }
    \* the IDE: not looked for, looked for and launched
    /\ prev_code_pids \in (IF variant = "legacy"
                           THEN {None} \cup {Some(p) : p \in SUBSET PreExistingPids}
                           ELSE {None})
    /\ code_installed = IsSet(prev_code_pids)
    /\ code_pids = IF IsSet(prev_code_pids)
                   THEN prev_code_pids[1] \cup LaunchedPids
                   ELSE {}
    /\ mode = "run"
    /\ config_file = None

\* cleanup(job_tunnel, ...) is called by a caller that chooses the optional
\* arguments; job_tunnel.py's cleanup has no local_tunnel parameter,
\* run_tunnel.py's has no prev_code_pids.
CleanupCall ==
    /\ pc \in {"call1", "call2"}
    /\ \E use_cfg \in BOOLEAN, use_prev \in BOOLEAN, use_local \in BOOLEAN,
          ok \in BOOLEAN, exit \in BOOLEAN :
         /\ use_prev => variant = "legacy"
         /\ use_local => variant = "package"
         /\ Cleanup(use_cfg, use_prev, use_local, ok, exit)
    /\ UNCHANGED sigint_at

NextCleanup ==
    \/ CleanupCall
    \/ JoinDone
    \/ ThreadConnect
    \/ ThreadRegister
    \/ ThreadSetCreated
    \/ ThreadExit

SpecCleanup == InitCleanup /\ [][NextCleanup]_vars

\* ------------------------------------------------------------------------
\* The command line entry point: main() of main.py, for both modes and for
\* every content of the configuration file.
\* ------------------------------------------------------------------------

\* The fields of the dataclass TunnelConfig.
ConfigFields ==
    {"remote_host", "time", "cpus_per_task", "cpus_per_gpu", "mem_per_cpu",
     "mem_per_gpu", "qos", "partition", "gpus", "nodes", "ntasks",
     "ntasks_per_node", "remote_sbatch_path", "remote_sif_path", "sif_bind_path"}

\* The options parse_args adds to the parser, in the order of its
\* add_argument calls; each default is get_from_config(<name>).
ParserKeys ==
    <<"remote_host", "time", "cpus", "mem", "qos", "partition",
      "remote_sbatch_path", "remote_sif_path", "sif_bind_path">>

\* The keys a configuration file may hold: some fields, and the name of a
\* command line option that is not a field.
FileKeys == {"remote_host", "time", "qos", "partition", "cpus_per_task", "cpus"}

\* CONFIG_FILE: absent, or a JSON object with any of these keys.
ConfigFiles == {None} \cup {Some(k) : k \in SUBSET FileKeys}

\* load_config: TunnelConfig(**json.load(f)) raises TypeError for a key that
\* is not a field; without a file the defaults are used.
LoadConfig(file) ==
    IF IsSet(file) /\ ~(file[1] \subseteq ConfigFields)
    THEN "TypeError: __init__() got an unexpected keyword argument"
    ELSE ""

\* parse_args: load_config, then for each option
\* getattr(config, key, getattr(DEFAULT_CONFIG, key)), whose third argument
\* is evaluated first and raises AttributeError for a key that is not a
\* field of TunnelConfig; then TunnelConfig(**args).
ParseArgs(file) ==
    IF LoadConfig(file) # ""
    THEN LoadConfig(file)
    ELSE IF \E i \in 1..Len(ParserKeys) : ParserKeys[i] \notin ConfigFields
    THEN "AttributeError: 'TunnelConfig' object has no attribute"
    ELSE ""

\* main(): parse_args, then the mode. 'init' returns when CONFIG_FILE
\* exists and writes tunnel_config.to_dict() to it otherwise; 'run' calls
\* run_tunnel.
Main ==
    /\ pc = "main"
    /\ IF ParseArgs(config_file) # ""
       THEN /\ Raise(ParseArgs(config_file))
            /\ UNCHANGED config_file
       ELSE IF mode = "init"
       THEN /\ config_file' = IF IsSet(config_file) THEN config_file
                              ELSE Some(ConfigFields)
            /\ pc' = "returned"
            /\ exit_status' = Some(0)
            /\ exc' = ""
       ELSE /\ pc' = "submit"
            /\ UNCHANGED <<config_file, exit_status, exc>>
    /\ UNCHANGED <<mode, variant, handler, tunnel_entry, sleep_duration,
                   sigint_at, teardown, jtVars, job_status, output, ssh_config,
                   watchVars, submit_in, ltVars, ideVars>>

InitMain ==
    /\ variant = "package"
    /\ pc = "main"
    /\ mode \in {"init", "run"}
    /\ config_file \in ConfigFiles
    /\ handler = "h1"
    /\ exit_status = None
    /\ exc = ""
    /\ tunnel_entry = None
    /\ sleep_duration = None
    /\ sigint_at = None
    /\ teardown = <<>>
    /\ job_id = None
    /\ port = None
    /\ node = None
    /\ termination_time = None
    /\ job_status = ""
    /\ output = <<>>
    /\ ssh_config = {LoginHost}
    /\ watch_texts = TunnelMarkers
    /\ watch = WatchIdle
    /\ submit_in = None
    /\ lt_port = None
    /\ lt_thread = "none"
    /\ lt_created = FALSE
    /\ lt_stop_event = FALSE
    /\ lt_entry = None
    /\ lt_child = "none"
    /\ code_installed = FALSE
    /\ code_pids = {}
    /\ prev_code_pids = None

NextMain == Main

SpecMain == InitMain /\ [][NextMain]_vars

\* ------------------------------------------------------------------------
\* Properties
\* ------------------------------------------------------------------------

\* The teardown has called JobTunnel.cancel_slurm_job.
CancelAttempted == Has(teardown, "cancel")

\* sbatch accepted the submission: the session has a job in the scheduler.
JobSubmitted ==
    /\ IsSet(submit_in)
    /\ submit_in[1].rc = 0
    /\ HasSubmittedPattern(submit_in[1].stdout)

\* The entries the session registers in the config store.
SessionEntries == {TunnelHost, LocalHost}

\* C1: when SIGINT was delivered at any point from the QUEUED polling loop
\* onwards, the handler's teardown has attempted the cancellation of the
\* submitted job by the time the primary thread has ended.
C1_InterruptAttemptsCancel ==
    (JobSubmitted /\ IsSet(sigint_at) /\ sigint_at[1] # "submit" /\ MainEnded)
        => CancelAttempted

\* C2: once a teardown was entered and the process has exited, no entry the
\* session registered remains in the config store.
C2_EntriesRemovedAtExit ==
    (ProcessExited /\ teardown # <<>>) => ssh_config \cap SessionEntries = {}

\* The exceptions of the watcher's timeout and of a sentinel value that
\* does not parse.
WatchFailures ==
    { "TimeoutError",
      "ValueError: invalid literal for int()",
      "ValueError: time data does not match format" }

\* C3: a run that ended with a watcher timeout or a sentinel value that did
\* not parse has attempted the cancellation of the running job.
C3_WatchFailureTearsDown ==
    (JobSubmitted /\ MainEnded /\ pc = "crashed" /\ exc \in WatchFailures)
        => CancelAttempted

\* C4: when watch_output_for_text has returned, every requested prefix
\* occurs in at least one of the returned lines.
C4_ReturnedLinesCoverPrefixes ==
    watch.state = "returned" =>
        \A k \in 1..Len(watch_texts) :
            \E i \in 1..Len(watch.found_texts) :
                Contains(watch.found_texts[i], watch_texts[k])

\* The file holds two PORT= lines, PORT=1111 and later PORT=2222.
TwoPortLines ==
    \E i, j \in 1..Len(output) :
        /\ i < j
        /\ output[i] = "PORT=1111"
        /\ output[j] = "PORT=2222"
        /\ \A k \in 1..Len(output) : Contains(output[k], PortMarker) => k \in {i, j}

\* C5: when the watcher has returned on a file that holds the two PORT=
\* lines PORT=1111 and, later, PORT=2222, get_tunnel_info has completed
\* (all three fields are set) and the port is 1111, the first match.
C5_FirstMatchWins ==
    (pc # "watch_only" /\ watch.state = "returned" /\ TwoPortLines) =>
        (port = Some(1111) /\ IsSet(node) /\ IsSet(termination_time))

\* The requested prefixes that no line of the file contains.
Unmatched(k) == \A i \in 1..Len(output) : ~Contains(output[i], watch_texts[k])

\* C6: the timeout error of the watcher names exactly the requested
\* prefixes that have not matched.
C6_TimeoutNamesUnmatched ==
    watch.state = "timeout" =>
        \A k \in 1..Len(watch_texts) :
            Has(watch.named, watch_texts[k]) <=> Unmatched(k)

\* C7: when the expiry sleep was reached with a negative duration, the run
\* ends as a normal close: exit status 0, the cancellation attempted and
\* the registered entries removed.
C7_NegativeSleepCloses ==
    (IsSet(sleep_duration) /\ sleep_duration[1] < 0 /\ MainEnded) =>
        /\ exit_status = Some(0)
        /\ CancelAttempted
        /\ ssh_config \cap SessionEntries = {}

ConfigSteps == {"remove_tunnel", "remove_local"}

ProcessSteps == {"kill"}

\* C8: in every teardown the cancellation attempt comes first, and no
\* process termination precedes a config removal.
C8_TeardownOrder ==
    /\ teardown # <<>> => teardown[1] = "cancel"
    /\ \A i, j \in 1..Len(teardown) :
          (teardown[i] \in ProcessSteps /\ teardown[j] \in ConfigSteps) => j < i

\* C9: port, node and termination_time are all unset or all set.
C9_ConnectionInfoAtomic ==
    \/ ~IsSet(port) /\ ~IsSet(node) /\ ~IsSet(termination_time)
    \/ IsSet(port) /\ IsSet(node) /\ IsSet(termination_time)

\* C10: after submit_slurm_job, a non-zero exit code or a stdout without
\* the pattern left job_id unset and raised; otherwise job_id is the last
\* whitespace-delimited token of stdout.
C10_SubmitParsesOrFails ==
    IsSet(submit_in) =>
        LET rc == submit_in[1].rc
            stdout == submit_in[1].stdout
            toks == Tokens(stdout)
        IN IF rc # 0 \/ ~HasSubmittedPattern(stdout)
           THEN ~IsSet(job_id) /\ pc = "crashed"
           ELSE job_id = Some(IntOf(toks[Len(toks)]))

\* The exceptions submit_slurm_job raises.
SubmitExceptions ==
    {"ValueError: Failed to submit SLURM job",
     "IndexError: list index out of range",
     "ValueError: invalid literal for int()"}

\* submit_slurm_job raised: the primary thread ended in it.
SubmitRaised ==
    /\ pc = "crashed"
    /\ sigint_at = None
    /\ watch.state = "idle"
    /\ exc \in SubmitExceptions

\* C11: job_id is unset before the submission and after a submission that
\* raised, and once it is set no step of the run (polling, watching,
\* cancel, teardown) changes it.
C11_JobIdWrittenOnce ==
    /\ [](~IsSet(submit_in) => ~IsSet(job_id))
    /\ [](SubmitRaised => ~IsSet(job_id))
    /\ [][IsSet(job_id) => job_id' = job_id]_vars

\* C11 witness: the job id was set, the watcher and the teardown's cancel
\* have run and the primary thread has ended; job_id still holds the id.
C11_Witness ==
    /\ job_id = Some(4821)
    /\ watch.state = "returned"
    /\ CancelAttempted
    /\ MainEnded

\* C12: when SIGINT was delivered while the submission was in progress
\* (handler installed, no job id yet), the teardown issued no remote
\* cancel command, raised no error, and the primary thread exited with 0.
C12_InterruptWhileSubmitting ==
    (sigint_at = Some("submit"))
        => /\ ~Has(teardown, "scancel")
           /\ exc = ""
           /\ exit_status = Some(0)

\* C13: once SIGINT was delivered and the primary thread has ended, it
\* ended with status 0 and nothing keeps the process from exiting: a
\* worker thread that is still alive has been told to stop.
C13_InterruptExitsZero ==
    (IsSet(sigint_at) /\ MainEnded)
        => /\ exit_status = Some(0)
           /\ ThreadAlive => lt_stop_event

\* C14: when SIGINT was delivered in a partially constructed session (the
\* job id is set and the handler is still the first one installed: the
\* tunnel entry, the local tunnel or the rebinding may be missing), the
\* handler's teardown has run without raising, from its first step on.
C14_HandlerOnPartialState ==
    (IsSet(sigint_at) /\ IsSet(job_id) /\ handler = "h1")
        => /\ exc = ""
           /\ CancelAttempted

\* The setup is over and the tunnel phase has begun: the connection info was
\* parsed and the entry of the compute node has been built from it.
TunnelActive == IsSet(tunnel_entry)

\* C18: a run that got past the setup ends with status 0, and a run that
\* failed during the setup (no SIGINT involved) ends with a status other
\* than 0.
C18_ExitStatus ==
    MainEnded
        => /\ TunnelActive => exit_status = Some(0)
           /\ (pc = "crashed" /\ ~TunnelActive /\ sigint_at = None)
                 => exit_status # Some(0)

\* C19: LocalTunnel._created is set (create returns) only when the worker
\* observed the ssh child ready: not after EOF, a timeout or an exception.
C19_CreatedOnlyWhenReady ==
    lt_created => lt_child = "ready"

\* The number of remote cancel commands (scancel) among the steps.
ScancelCount(steps) == Cardinality({i \in 1..Len(steps) : steps[i] = "scancel"})

\* C15: cleanup called twice in a row, on a session whose job or config
\* fields may be unset, never raises, and a second call that finds the job
\* gone from the queue (empty status) issues no remote cancel command.
C15_CleanupIdempotent ==
    /\ [](exc = "")
    /\ [][(pc = "call2" /\ job_status = "")
             => ScancelCount(teardown') = ScancelCount(teardown)]_vars

\* C16: a call of job_tunnel.py's cancel_slurm_job issues exactly one
\* scancel when the status query answers PENDING, RUNNING or STOPPED, and
\* none for any other answer, the empty one included.
C16_CancelOnlyWhenCancellable ==
    [][(variant = "legacy" /\ teardown' # teardown)
          => ScancelCount(SubSeq(teardown', Len(teardown) + 1, Len(teardown')))
               = (IF job_status \in {"PENDING", "RUNNING", "STOPPED"} THEN 1 ELSE 0)]_vars

\* C16 witness: cleanup was called twice on a submitted job; the first call
\* found it cancellable and issued the one scancel, the second call found
\* the empty status and issued none.
C16_Witness ==
    /\ variant = "legacy"
    /\ pc = "called"
    /\ IsSet(job_id)
    /\ job_status = ""
    /\ ScancelCount(teardown) = 1
    /\ Len(SelectSeq(teardown, LAMBDA s : s = "cancel")) = 2

\* C17: once cleanup has been called, in whatever state of the job (not
\* submitted, pending, running, gone; scancel failing or not), its call of
\* cancel_slurm_job has returned normally.
C17_CancelReturns ==
    (pc # "call1")
        => /\ CancelAttempted
           /\ exc # "AttributeError: 'NoneType' object has no attribute 'cancel'"

\* C20: LocalTunnel.cleanup removes the local forward's entry and stops the
\* worker, and it does not raise when the worker was never started or has
\* not yet registered its entry.
C20_LocalCleanupSafe ==
    /\ Has(teardown, "remove_local") => LocalHost \notin ssh_config
    /\ Has(teardown, "stop_thread") => lt_stop_event
    /\ exc # "ValueError: Local tunnel entry is not set"

\* C21: when the session launched the IDE and its teardown was given the
\* processes recorded before the launch (the last handler or the expiry),
\* no process the session launched is left running after the teardown,
\* whatever the recorded set was, the empty set included.
C21_LaunchedIdeTerminated ==
    (pc = "exited" /\ IsSet(prev_code_pids) /\ handler = "h3")
        => code_pids \cap LaunchedPids = {}

\* C22: the primary thread leaves the polling loop of QUEUED only by a poll
\* that observes RUNNING (it then goes on to get_tunnel_info) or by SIGINT;
\* for any other status, the empty one of a job that left the queue
\* included, it stays in the loop, and nothing counts the polls.
C22_QueuedUntilRunning ==
    [][pc = "queued"
          => \/ pc' = "queued"
             \/ pc' = "get_info" /\ job_status = "RUNNING"
             \/ sigint_at' # sigint_at]_vars

\* C22 witness: the job was accepted and has left the queue again, and the
\* primary thread is still polling in QUEUED.
C22_Witness ==
    /\ JobSubmitted
    /\ pc = "queued"
    /\ job_status = ""
    /\ ~MainEnded

\* get_tunnel_info raised because the job was not running.
NotRunningRaised == pc = "crashed" /\ exc = "ValueError: Job is not running"

\* C25: when get_tunnel_info has raised because the job was not running,
\* the output file was not polled and port, node and termination_time are
\* unset.
C25_NotRunningRaisesUntouched ==
    NotRunningRaised
        => /\ watch = WatchIdle
           /\ port = None
           /\ node = None
           /\ termination_time = None

\* C25 witness: the job left the queue after the polling loop saw it
\* running, and get_tunnel_info raised.
C25_Witness ==
    /\ NotRunningRaised
    /\ job_status = ""
    /\ sigint_at = None

\* C23: in every state in which the entry "<host>-job" is in the config
\* store, the watcher has returned to get_tunnel_info, job_id, port, node
\* and termination_time are all set, and the entry that was written names
\* the compute node and port parsed and has the login host as its proxy.
C23_EntryOnlyAfterInfo ==
    (TunnelHost \in ssh_config)
        => /\ watch.state = "returned"
           /\ IsSet(job_id) /\ IsSet(port) /\ IsSet(node) /\ IsSet(termination_time)
           /\ IsSet(tunnel_entry)
           /\ tunnel_entry[1].host = TunnelHost
           /\ tunnel_entry[1].proxy = LoginHost
           /\ tunnel_entry[1].hostname = node[1]
           /\ tunnel_entry[1].port = port[1]

\* C23 witness: the entry is registered and the session sleeps until the
\* expiry.
C23_Witness ==
    /\ TunnelHost \in ssh_config
    /\ pc = "sleeping"

\* LocalTunnel.cleanup has been called and has returned.
LocalCleanupReturned == Has(teardown, "remove_local") /\ pc = "exited"

\* C24: once the readiness flag is set (create can return), the local
\* forward's entry is set and, until a teardown removes it, registered in
\* the config store; and once a LocalTunnel.cleanup that followed has
\* returned, the stop event is set and the worker thread has ended.
C24_EntryBeforeReadiness ==
    /\ lt_created => IsSet(lt_entry)
    /\ (lt_created /\ ~Has(teardown, "remove_local")) => LocalHost \in ssh_config
    /\ LocalCleanupReturned => (lt_stop_event /\ lt_thread = "done")

\* C24 witness: create returned, the session ran to its teardown, and
\* LocalTunnel.cleanup has stopped the worker.
C24_Witness ==
    /\ lt_created
    /\ LocalCleanupReturned
    /\ lt_thread = "done"

\* C26: no step terminates an IDE process recorded before the launch of the
\* IDE, and while the session has launched no IDE (nothing is recorded) no
\* step terminates any IDE process.
C26_PreExistingIdeSurvives ==
    [][(code_pids \ code_pids')
          \cap (IF IsSet(prev_code_pids) THEN prev_code_pids[1] ELSE code_pids)
          = {}]_vars

\* C26 witness: an IDE process ran before the session, the session launched
\* its own, and after the teardown's kill the earlier process still runs.
C26_Witness ==
    /\ pc = "exited"
    /\ Has(teardown, "kill")
    /\ prev_code_pids = Some(PreExistingPids)
    /\ code_pids = PreExistingPids

\* C27: 'init' returns normally (with a notice when the configuration file
\* exists), never changes an existing configuration file, and neither
\* submits a job nor touches the SSH config.
C27_InitKeepsExistingConfig ==
    /\ []((mode = "init" /\ MainEnded)
            => /\ exc = ""
               /\ exit_status = Some(0)
               /\ submit_in = None
               /\ ssh_config = {LoginHost})
    /\ [][(mode = "init" /\ IsSet(config_file)) => config_file' = config_file]_vars

====
